---- MODULE Spec2Model ----
(***************************************************************************)
(* AgentCoordinator of the REPAIR Protocol (src/unnamed/part_004).         *)
(* The coordinator fans a repair context out to the registered analyzers,  *)
(* collects their outcomes with Promise.allSettled, synthesizes them and   *)
(* builds one recommendation list; it also queues and drains events.       *)
(* JavaScript runs the class on one thread: every action below is the code *)
(* between two suspension points (an await) of one async method.           *)
(***************************************************************************)
EXTENDS Integers, Sequences, FiniteSets, TLC

VARIABLES
    agents,                 \* this.agents: agent name -> registered (non-null)
    systemHealth,           \* this.systemHealth
    initCalls,              \* activations of initializeAgents
    activeCoordinations,    \* this.activeCoordinations: analysis id -> record
    calls,                  \* activations of analyzeRepairProcess
    agentCommunicationLog,  \* this.agentCommunicationLog
    appends,                \* history: logAgentCommunication calls so far
    helpers,                \* the placeholder methods the deployment supplies
    eventQueue,             \* this.eventQueue: ids of the queued event records
    events,                 \* every event record handleEvent created, by id
    processingQueue,        \* this.processingQueue
    drains,                 \* suspended activations of processEventQueue
    drainCount,             \* activations of processEventQueue so far
    processTrace,           \* history: starts and ends of processEvent
    returns,                \* history: what each handleEvent call returned
    resolutions,            \* activations of resolveAgentConflicts
    lookups,                \* history: what each getCoordination call returned
    healthChecks,           \* history: what each performHealthCheck call returned
    apiConfig,              \* GPTIntegration's this.apiConfig.config
    requests                \* activations of GPTIntegration.makeRequest

initVars == <<agents, systemHealth, initCalls>>

logVars == <<agentCommunicationLog, appends>>

analysisVars == <<activeCoordinations, calls, logVars>>

eventVars == <<helpers, eventQueue, events, processingQueue, drains, drainCount,
               processTrace, returns>>

\* State of the methods a caller invokes directly
directVars == <<resolutions, healthChecks, lookups>>

\* State of GPTIntegration
gptVars == <<apiConfig, requests>>

vars == <<initVars, analysisVars, eventVars, directVars, gptVars>>

-----------------------------------------------------------------------------
(* Bounds of the model *)

MaxCalls == 2           \* analyzeRepairProcess calls in one behaviour
MaxInvocations == 2     \* analyzer invocations in one behaviour
MaxParties == 2         \* longest parties list of a context

-----------------------------------------------------------------------------
(* Agents, in the key order of this.agents *)

AgentOrder == <<"contractAnalyzer", "mediationEngine", "emotionalIntelligence",
                "progressOptimizer">>

Agents == {AgentOrder[i] : i \in 1..Len(AgentOrder)}

Range(s) == {s[i] : i \in 1..Len(s)}

\* A JavaScript object with string keys, in insertion order.
Keys(obj) == [i \in 1..Len(obj) |-> obj[i].key]

HasKey(obj, k) == \E i \in 1..Len(obj) : obj[i].key = k

\* Object.assign(obj, {[k]: v}): an existing key keeps its place and takes the
\* new value, a new key goes last.
ObjectAssign(obj, k, v) ==
    IF HasKey(obj, k)
    THEN [i \in 1..Len(obj) |->
            IF obj[i].key = k THEN [key |-> k, value |-> v] ELSE obj[i]]
    ELSE Append(obj, [key |-> k, value |-> v])

-----------------------------------------------------------------------------
(* Recommendations.  A string is the sequence of its symbols, so that        *)
(* rec.action + rec.category is the concatenation of two sequences.          *)

Priorities == {"critical", "high", "medium", "low"}

\* priorityOrder[p] || 0 of prioritizeRecommendations
PriorityRank(p) ==
    CASE p = "critical" -> 4
      [] p = "high" -> 3
      [] p = "medium" -> 2
      [] p = "low" -> 1
      [] OTHER -> 0

\* A sort that puts r before the entries of its own rank.
SortInsertUnstable(s, r) ==
    LET k == Cardinality({i \in 1..Len(s) :
                 PriorityRank(s[i].priority) > PriorityRank(r.priority)})
    IN SubSeq(s, 1, k) \o <<r>> \o SubSeq(s, k + 1, Len(s))

\* Where Array.prototype.sort (stable) leaves r among the already sorted s:
\* behind every entry whose rank is at least r's.
SortInsert(s, r) ==
    LET k == Cardinality({i \in 1..Len(s) :
                 PriorityRank(s[i].priority) >= PriorityRank(r.priority)})
    IN SubSeq(s, 1, k) \o <<r>> \o SubSeq(s, k + 1, Len(s))

RECURSIVE SortFrom(_, _)
SortFrom(sorted, rest) ==
    IF rest = <<>> THEN sorted
    ELSE SortFrom(SortInsert(sorted, Head(rest)), Tail(rest))

\* recommendations.sort((a, b) => rank(b) - rank(a))
prioritizeRecommendations(recommendations) == SortFrom(<<>>, recommendations)

\* const key = rec.action + rec.category
DedupKey(rec) == rec.action \o rec.category

RECURSIVE DedupFrom(_, _, _)
DedupFrom(kept, seen, rest) ==
    IF rest = <<>> THEN kept
    ELSE LET key == DedupKey(Head(rest))
         IN IF key \in seen
            THEN DedupFrom(kept, seen, Tail(rest))
            ELSE DedupFrom(Append(kept, Head(rest)), seen \cup {key}, Tail(rest))

deduplicateRecommendations(recommendations) == DedupFrom(<<>>, {}, recommendations)

CoordinationAction == <<"Continue coordinated monitoring of repair process">>

CoordinationCategory == <<"coordination">>

\* The coordinator's own recommendation carries no coordinationId (0).
generateCoordinationRecommendations ==
    <<[action |-> CoordinationAction, category |-> CoordinationCategory,
       priority |-> "medium", source |-> "coordinator", coordinationId |-> 0]>>

\* {...rec, source: agentName, coordinationId: coordination.id}
TagRecommendations(recs, agentName, id) ==
    [i \in 1..Len(recs) |->
        [action |-> recs[i].action, category |-> recs[i].category,
         priority |-> recs[i].priority, source |-> agentName,
         coordinationId |-> id]]

\* The forEach over Object.keys(agentResults): recommendations in key order.
RECURSIVE CollectRecommendations(_, _)
CollectRecommendations(agentResults, id) ==
    IF agentResults = <<>> THEN <<>>
    ELSE TagRecommendations(Head(agentResults).value.recommendations,
                            Head(agentResults).key, id)
         \o CollectRecommendations(Tail(agentResults), id)

AgentSourcedRecommendations(agentResults, id) ==
    deduplicateRecommendations(
        prioritizeRecommendations(CollectRecommendations(agentResults, id)))

generateUnifiedRecommendations(coordination) ==
    AgentSourcedRecommendations(coordination.agentResults, coordination.id)
    \o generateCoordinationRecommendations

-----------------------------------------------------------------------------
(* Synthesis of the agents' results *)

\* What one agent's result adds to keyInsights; result.confidence || 0.
InsightsOf(agentName, result) ==
    CASE agentName = "contractAnalyzer" ->
            <<[source |-> agentName, confidence |-> result.confidence]>>
      [] agentName = "emotionalIntelligence" ->
            IF result.scores
            THEN <<[source |-> agentName, confidence |-> result.confidence]>>
            ELSE <<>>
      [] agentName = "progressOptimizer" ->
            IF result.progress
            THEN <<[source |-> agentName, confidence |-> 85]>> ELSE <<>>
      [] agentName = "mediationEngine" ->
            IF result.progress
            THEN <<[source |-> agentName, confidence |-> 80]>> ELSE <<>>
      [] OTHER -> <<>>

\* What one agent's result adds to riskFactors (riskAssessment.factors,
\* manipulationRisk, bottlenecks).
RisksOf(agentName, result) ==
    IF result.risk = "none" \/ agentName = "mediationEngine" THEN <<>>
    ELSE <<[source |-> agentName]>>

\* push(...result.riskAssessment.factors) and result.bottlenecks.map(...) throw
\* a TypeError when the field is not a list.
SynthesisThrows(agentName, result) ==
    /\ agentName \in {"contractAnalyzer", "progressOptimizer"}
    /\ result.risk = "malformed"

RECURSIVE SumConfidence(_)
SumConfidence(scores) ==
    IF scores = <<>> THEN 0 ELSE Head(scores) + SumConfidence(Tail(scores))

\* Math.floor(sum / n)
RoundDivDown(sum, n) == sum \div n

\* Math.round(sum / n) for sum >= 0, n > 0
RoundDiv(sum, n) == (2 * sum + n) \div (2 * n)

RECURSIVE ConcatInsights(_)
ConcatInsights(agentResults) ==
    IF agentResults = <<>> THEN <<>>
    ELSE InsightsOf(Head(agentResults).key, Head(agentResults).value)
         \o ConcatInsights(Tail(agentResults))

RECURSIVE ConcatRisks(_)
ConcatRisks(agentResults) ==
    IF agentResults = <<>> THEN <<>>
    ELSE RisksOf(Head(agentResults).key, Head(agentResults).value)
         \o ConcatRisks(Tail(agentResults))

OverallConfidence(keyInsights) ==
    LET confidenceScores ==
            SelectSeq([i \in 1..Len(keyInsights) |-> keyInsights[i].confidence],
                      LAMBDA c : c > 0)
    IN IF Len(confidenceScores) > 0
       THEN RoundDiv(SumConfidence(confidenceScores), Len(confidenceScores))
       ELSE 0

NoSynthesis == [threw |-> FALSE, keyInsights |-> <<>>, riskFactors |-> <<>>,
                confidence |-> 0]

synthesizeResults(agentResults) ==
    IF \E i \in 1..Len(agentResults) :
          SynthesisThrows(agentResults[i].key, agentResults[i].value)
    THEN [NoSynthesis EXCEPT !.threw = TRUE]
    ELSE [threw |-> FALSE,
          keyInsights |-> ConcatInsights(agentResults),
          riskFactors |-> ConcatRisks(agentResults),
          confidence |-> OverallConfidence(ConcatInsights(agentResults))]

-----------------------------------------------------------------------------
(* Repair contexts.  A field is TRUE when the context carries a truthy      *)
(* value for it; parties is the length of context.parties (0: no list).     *)

NullContext ==
    [isNull |-> TRUE, contract |-> FALSE, communications |-> FALSE,
     apologyText |-> FALSE, parties |-> 0, processId |-> FALSE,
     urgency |-> "none"]

ObjectContexts ==
    [isNull : {FALSE}, contract : BOOLEAN, communications : BOOLEAN,
     apologyText : BOOLEAN, parties : 0..MaxParties, processId : BOOLEAN,
     urgency : {"none"}]

Contexts == ObjectContexts \cup {NullContext}

determinePriority(context) ==
    CASE context.urgency \in {"emergency", "safety_risk"} -> "critical"
      [] context.urgency \in {"escalation_risk", "deadline_approaching"} -> "high"
      [] context.urgency = "optimization_opportunity" -> "medium"
      [] OTHER -> "low"

\* The invocations analyzeRepairProcess pushes on agentPromises, in order.
Invocation(agentName, method) ==
    [agent |-> agentName, method |-> method, state |-> "pending",
     value |-> <<>>, reason |-> "none"]

AgentPromises(registered, ctx) ==
    (IF registered["contractAnalyzer"] /\ ctx.contract
     THEN <<Invocation("contractAnalyzer", "analyzeContract")>> ELSE <<>>)
    \o (IF registered["emotionalIntelligence"] /\ ctx.communications
        THEN <<Invocation("emotionalIntelligence", "recognizeEmotionalPatterns")>>
        ELSE <<>>)
    \o (IF registered["emotionalIntelligence"] /\ ctx.apologyText
        THEN <<Invocation("emotionalIntelligence", "analyzeAuthenticity")>>
        ELSE <<>>)
    \o (IF registered["mediationEngine"] /\ ctx.parties > 1
        THEN <<Invocation("mediationEngine", "initiateMediationSession")>>
        ELSE <<>>)
    \o (IF registered["progressOptimizer"] /\ ctx.processId
        THEN <<Invocation("progressOptimizer", "analyzeProgress")>> ELSE <<>>)

-----------------------------------------------------------------------------
(* What an analyzer may answer.  The analyzers are collaborators of the     *)
(* coordinator: a call fulfils with a result or throws.                      *)

Rec(action, category, priority) ==
    [action |-> action, category |-> category, priority |-> priority]

Result(method, confidence, scores, risk, progress, recs) ==
    [producedBy |-> method, confidence |-> confidence, scores |-> scores,
     risk |-> risk, progress |-> progress, recommendations |-> recs]

\* The results of the analyzers of this repository, by shape.
ResultsOf(agentName, method) ==
    CASE method = "analyzeContract" ->
            {Result(method, 70, TRUE, r, FALSE, <<>>) : r \in {"list", "malformed"}}
      [] method = "recognizeEmotionalPatterns" ->
            {Result(method, 0, FALSE, "none", FALSE, <<>>)}
      [] method = "analyzeAuthenticity" ->
            {Result(method, 75, TRUE, "list", FALSE,
                    <<Rec(<<"a">>, <<"c">>, "low")>>)}
      [] method = "initiateMediationSession" ->
            {Result(method, 0, FALSE, "none", TRUE, <<>>)}
      [] method = "analyzeProgress" ->
            {Result(method, 0, FALSE, "list", TRUE,
                    <<Rec(<<"a">>, <<"c">>, "high")>>)}

\* What a failing analyzer throws: an Error, or a value without properties.
Thrown == {"Error", "null"}

Outcomes(agentName, method) ==
    {[kind |-> "fulfilled", value |-> v, thrown |-> "none"] :
        v \in ResultsOf(agentName, method)}
    \cup {[kind |-> "rejected", value |-> <<>>, thrown |-> t] : t \in Thrown}

-----------------------------------------------------------------------------
(* The configuration GPTIntegration works on: config.primary and            *)
(* config.fallback of APIConfig, as its constructor sets them.              *)

PrimaryConfig ==
    [provider |-> "openai", endpoint |-> "https://api.openai.com",
     model |-> "gpt-4"]

FallbackConfig ==
    [provider |-> "custom", endpoint |-> "null", model |-> "gpt-3.5-turbo"]

-----------------------------------------------------------------------------
(* State after construction *)

NoCoordinations == [id \in {} |-> <<>>]

\* Methods the class calls but does not define (its closing comment: "would
\* be fully implemented in production").  With helpers = {} the class runs
\* as it is in the repository and each such call throws a TypeError; with
\* helpers = Helpers a deployment has supplied them.
Helpers == {"routeEventToAgent", "coordinateEventResponses",
            "estimateProcessingTime", "identifyConflicts", "expertOverride",
            "weightedVoting", "buildConsensus", "findCompromise",
            "buildOverallConsensus"}

Init ==
    /\ agents = [a \in Agents |-> FALSE]
    /\ systemHealth = [status |-> "operational", overallStatus |-> "undefined",
                       agentStatus |-> [a \in Agents |-> "undefined"]]
    /\ initCalls = <<>>
    /\ activeCoordinations = NoCoordinations
    /\ calls = <<>>
    /\ agentCommunicationLog = <<>>
    /\ appends = 0
    /\ helpers \in {{}, Helpers}
    /\ eventQueue = <<>>
    /\ events = <<>>
    /\ processingQueue = FALSE
    /\ drains = <<>>
    /\ drainCount = 0
    /\ processTrace = <<>>
    /\ returns = <<>>
    /\ resolutions = <<>>
    /\ healthChecks = <<>>
    /\ lookups = <<>>
    /\ apiConfig = [primary |-> PrimaryConfig, fallback |-> FallbackConfig]
    /\ requests = <<>>

-----------------------------------------------------------------------------
(* performHealthCheck and initializeAgents *)

\* A health check that calls two missing agents critical already.
HealthSnapshotStrict(registered) ==
    LET unavailableAgents == Cardinality({a \in Agents : ~registered[a]})
    IN [status |-> "undefined",
        overallStatus |-> IF unavailableAgents > 0
                          THEN IF unavailableAgents >= 2 THEN "critical"
                               ELSE "degraded"
                          ELSE "operational",
        agentStatus |-> [a \in Agents |->
                            IF registered[a] THEN "operational" ELSE "unavailable"]]

\* The healthCheck object performHealthCheck builds; it has no status field.
HealthSnapshot(registered) ==
    LET unavailableAgents == Cardinality({a \in Agents : ~registered[a]})
    IN [status |-> "undefined",
        overallStatus |-> IF unavailableAgents > 0
                          THEN IF unavailableAgents > 2 THEN "critical"
                               ELSE "degraded"
                          ELSE "operational",
        agentStatus |-> [a \in Agents |->
                            IF registered[a] THEN "operational" ELSE "unavailable"]]

\* A call of performHealthCheck, which has no await: the snapshot is stored
\* and returned.
performHealthCheck ==
    /\ systemHealth' = HealthSnapshot(agents)
    /\ healthChecks' = Append(healthChecks,
           [registered |-> agents, returned |-> HealthSnapshot(agents),
            stored |-> systemHealth'])
    /\ UNCHANGED <<gptVars, resolutions, lookups, agents, initCalls, analysisVars, eventVars>>

\* The agents initializeAgents constructs before its first throw.
RECURSIVE InitializedPrefix(_, _)
InitializedPrefix(available, i) ==
    IF i > Len(AgentOrder) \/ AgentOrder[i] \notin available THEN {}
    ELSE {AgentOrder[i]} \cup InitializedPrefix(available, i + 1)

\* initializeAgents up to its await of performHealthCheck, or to its catch.
initializeAgents(available) ==
    LET done == InitializedPrefix(available, 1)
        registered == [a \in Agents |-> agents[a] \/ a \in done]
    IN /\ agents' = registered
       /\ IF done = Agents
          THEN /\ systemHealth' = HealthSnapshot(registered)
               /\ initCalls' = Append(initCalls,
                     [pc |-> "healthCheck", success |-> TRUE, agents |-> done,
                      errors |-> <<>>, systemReadiness |-> FALSE,
                      available |-> available,
                      healthCheck |-> HealthSnapshot(registered).overallStatus,
                      healthAtReturn |-> "pending"])
          ELSE /\ systemHealth' = systemHealth
               /\ initCalls' = Append(initCalls,
                     [pc |-> "returned", success |-> FALSE, agents |-> done,
                      errors |-> <<AgentOrder[Cardinality(done) + 1]>>,
                      systemReadiness |-> FALSE,
                      available |-> available,
                      healthCheck |-> "none",
                      healthAtReturn |-> systemHealth.overallStatus])
       /\ UNCHANGED <<gptVars, directVars, analysisVars, eventVars>>

-----------------------------------------------------------------------------
(* analyzeRepairProcess *)

RECURSIVE InvocationCount(_)
InvocationCount(cs) ==
    IF cs = <<>> THEN 0 ELSE Len(Head(cs).promises) + InvocationCount(Tail(cs))

NewCoordination(id, ctx) ==
    [id |-> id, context |-> ctx, agentResults |-> <<>>, conflicts |-> <<>>,
     consensus |-> NoSynthesis, recommendations |-> <<>>,
     priority |-> determinePriority(ctx), status |-> "in_progress",
     error |-> "none"]

\* registered is history: this.agents as the call found it.
NewCall(id, ctx, pc, promises) ==
    [id |-> id, ctx |-> ctx, pc |-> pc, promises |-> promises,
     registered |-> agents, synthesis |-> NoSynthesis, pendingRecs |-> <<>>]

\* Date.now() alone as the id: two calls of one millisecond get one id.
generateAnalysisIdClock ==
    IF calls = <<>> THEN 1 ELSE calls[Len(calls)].id

\* 'analysis_' + Date.now() + '_' + nine random characters: a fresh id
generateAnalysisId == Len(calls) + 1

\* Map.prototype.set
MapSet(map, k, v) ==
    [x \in DOMAIN map \cup {k} |-> IF x = k THEN v ELSE map[x]]

\* Whether the record is stored before the priority is read.  The code reads
\* determinePriority(repairContext) while it builds the record, before
\* activeCoordinations.set and before the try block.
StoresBeforePriority == FALSE

\* From the call to the await of Promise.allSettled.  A null context makes
\* determinePriority throw.
analyzeRepairProcess(ctx) ==
    LET analysisId == generateAnalysisId
        promises == AgentPromises(agents, ctx)
    IN /\ IF ctx.isNull
          THEN /\ calls' = Append(calls, NewCall(analysisId, ctx, "threw", <<>>))
               /\ activeCoordinations' =
                     IF StoresBeforePriority
                     THEN MapSet(activeCoordinations, analysisId,
                                 [NewCoordination(analysisId, ctx)
                                    EXCEPT !.status = "failed"])
                     ELSE activeCoordinations
          ELSE /\ calls' = Append(calls,
                                  NewCall(analysisId, ctx, "awaiting", promises))
               /\ activeCoordinations' =
                     MapSet(activeCoordinations, analysisId,
                            NewCoordination(analysisId, ctx))
       /\ UNCHANGED <<gptVars, directVars, initVars, logVars, eventVars>>

\* The entries the log keeps
LogCap == 1000

\* A cut that keeps the first 1000 entries.
logAgentCommunicationKeepsOldest(log, logEntry) ==
    LET pushed == Append(log, logEntry)
    IN IF Len(pushed) > LogCap THEN SubSeq(pushed, 1, LogCap) ELSE pushed

\* this.agentCommunicationLog.push(logEntry), then the cut to the last 1000
logAgentCommunication(log, logEntry) ==
    LET pushed == Append(log, logEntry)
    IN IF Len(pushed) > LogCap
       THEN SubSeq(pushed, Len(pushed) - LogCap + 1, Len(pushed))
       ELSE pushed

\* A catch block that rethrows whatever was thrown.
RejectionReasonRethrown(thrown) == thrown

\* What the catch block of executeAgentAnalysis rejects with.  It reads
\* error.message to build the log entry before it rethrows: of a thrown null
\* or undefined that read throws a TypeError, which is then the reason.
RejectionReason(thrown) == IF thrown = "null" THEN "TypeError" ELSE thrown

\* executeAgentAnalysis after its await of the agent's method.  No log entry
\* is written when building it threw.  The test at its entry never throws:
\* the fan-out invokes registered agents only, and the classes that
\* initializeAgents constructs define each method the fan-out names.
executeAgentAnalysis(c, i, outcome) ==
    LET p == calls[c].promises[i]
    IN /\ calls[c].pc = "awaiting"
       /\ p.state = "pending"
       /\ calls' = [calls EXCEPT ![c].promises[i] =
             [p EXCEPT !.state = outcome.kind,
                       !.value = outcome.value,
                       !.reason = RejectionReason(outcome.thrown)]]
       /\ agentCommunicationLog' =
             IF outcome.thrown = "null" THEN agentCommunicationLog
             ELSE logAgentCommunication(agentCommunicationLog,
                     [agent |-> p.agent, method |-> p.method,
                      success |-> outcome.kind = "fulfilled"])
       /\ appends' = IF outcome.thrown = "null" THEN appends ELSE appends + 1
       /\ UNCHANGED <<gptVars, directVars, initVars, activeCoordinations, eventVars>>

\* Promise.all in the place of Promise.allSettled: over at the first rejection
AllFulfilledOrOneRejected(promises) ==
    \/ \A i \in 1..Len(promises) : promises[i].state = "fulfilled"
    \/ \E i \in 1..Len(promises) : promises[i].state = "rejected"

AllSettled(promises) == \A i \in 1..Len(promises) : promises[i].state # "pending"

\* agentPromises[index].agent: a Promise has no such property.
AgentFailure(promise) ==
    [type |-> "agent_failure", agent |-> "undefined", error |-> promise.reason]

\* result.reason.message throws when the reason is null or undefined.
CollectThrows(promises) ==
    \E i \in 1..Len(promises) :
        promises[i].state = "rejected" /\ promises[i].reason = "null"

\* results.forEach(...) over outcomes, as far as it gets
RECURSIVE CollectFrom(_, _)
CollectFrom(coordination, promises) ==
    IF promises = <<>> \/ (Head(promises).state = "rejected"
                           /\ Head(promises).reason = "null")
    THEN coordination
    ELSE LET p == Head(promises)
         IN CollectFrom(
              IF p.state = "fulfilled"
              THEN [coordination EXCEPT !.agentResults =
                       ObjectAssign(@, p.agent, p.value)]
              ELSE [coordination EXCEPT !.conflicts =
                       Append(@, AgentFailure(p))],
              Tail(promises))

\* Where the log has the settling of the invocation; behind the log if the
\* catch block threw before it wrote the entry.
SettleRank(p) ==
    LET at == {k \in 1..Len(agentCommunicationLog) :
                  /\ agentCommunicationLog[k].agent = p.agent
                  /\ agentCommunicationLog[k].method = p.method}
    IN IF at = {} THEN Len(agentCommunicationLog) + 1
       ELSE CHOOSE k \in at : \A j \in at : k <= j

\* The outcomes taken in the order in which the invocations settled.
CollectResultsAsSettled(coordination, promises) ==
    LET n == Len(promises)
        perm == CHOOSE f \in [1..n -> 1..n] :
                   /\ \A i, j \in 1..n : i # j => f[i] # f[j]
                   /\ \A i, j \in 1..n : i < j =>
                         \/ SettleRank(promises[f[i]]) < SettleRank(promises[f[j]])
                         \/ /\ SettleRank(promises[f[i]]) = SettleRank(promises[f[j]])
                            /\ f[i] < f[j]
    IN CollectFrom(coordination, [i \in 1..n |-> promises[perm[i]]])

\* Promise.allSettled yields the outcomes in the order of agentPromises,
\* whatever the order of settling.
CollectResults(coordination, promises) == CollectFrom(coordination, promises)

\* After Promise.allSettled: the results are folded into the record and
\* synthesizeResults is called and awaited; a throw of the forEach goes to
\* the catch block.
analyzeCollect(c) ==
    LET id == calls[c].id
        collected == CollectResults(activeCoordinations[id], calls[c].promises)
    IN /\ calls[c].pc = "awaiting"
       /\ AllSettled(calls[c].promises)
       /\ IF CollectThrows(calls[c].promises)
          THEN /\ activeCoordinations' = [activeCoordinations EXCEPT ![id] =
                     [collected EXCEPT !.status = "failed", !.error = "TypeError"]]
               /\ calls' = [calls EXCEPT ![c].pc = "failed"]
          ELSE /\ activeCoordinations' =
                     [activeCoordinations EXCEPT ![id] = collected]
               /\ calls' = [calls EXCEPT
                     ![c].pc = "synthesizing",
                     ![c].synthesis = synthesizeResults(collected.agentResults)]
       /\ UNCHANGED <<gptVars, directVars, initVars, logVars, eventVars>>

\* After the await of synthesizeResults: the consensus is stored and
\* generateUnifiedRecommendations is called and awaited; or the catch block.
analyzeSynthesized(c) ==
    LET id == calls[c].id
        coordination == activeCoordinations[id]
    IN /\ calls[c].pc = "synthesizing"
       /\ IF calls[c].synthesis.threw
          THEN /\ activeCoordinations' = [activeCoordinations EXCEPT
                     ![id].status = "failed", ![id].error = "TypeError"]
               /\ calls' = [calls EXCEPT ![c].pc = "failed"]
          ELSE /\ activeCoordinations' = [activeCoordinations EXCEPT
                     ![id].consensus = calls[c].synthesis]
               /\ calls' = [calls EXCEPT
                     ![c].pc = "recommending",
                     ![c].pendingRecs = generateUnifiedRecommendations(
                         [coordination EXCEPT !.consensus = calls[c].synthesis])]
       /\ UNCHANGED <<gptVars, directVars, initVars, logVars, eventVars>>

\* After the await of generateUnifiedRecommendations
analyzeComplete(c) ==
    LET id == calls[c].id
    IN /\ calls[c].pc = "recommending"
       /\ activeCoordinations' = [activeCoordinations EXCEPT
             ![id].recommendations = calls[c].pendingRecs,
             ![id].status = "completed"]
       /\ calls' = [calls EXCEPT ![c].pc = "completed"]
       /\ UNCHANGED <<gptVars, directVars, initVars, logVars, eventVars>>

-----------------------------------------------------------------------------
(* logAgentCommunication, called with an entry of the caller.  The entry    *)
(* carries the number of the call as its timestamp.                         *)

logAgentCommunicationCall(agentName, success) ==
    /\ agentCommunicationLog' =
          logAgentCommunication(agentCommunicationLog,
              [agent |-> agentName, method |-> "none", success |-> success,
               timestamp |-> appends + 1])
    /\ appends' = appends + 1
    /\ UNCHANGED <<gptVars, directVars, initVars, activeCoordinations, calls, eventVars>>

-----------------------------------------------------------------------------
(* getCoordination *)

\* this.activeCoordinations.get(coordinationId): the record, or undefined.
\* The method has no throw.  created is history: whether a call of
\* analyzeRepairProcess has generated the id.
getCoordination(coordinationId) ==
    LET found == coordinationId \in DOMAIN activeCoordinations
    IN /\ lookups' = Append(lookups,
             [id |-> coordinationId, threw |-> FALSE, found |-> found,
              status |-> IF found THEN activeCoordinations[coordinationId].status
                         ELSE "undefined",
              created |-> \E c \in 1..Len(calls) : calls[c].id = coordinationId])
       /\ UNCHANGED <<gptVars, resolutions, healthChecks, initVars, analysisVars, eventVars>>

-----------------------------------------------------------------------------
(* Events *)

CriticalTypes == {"emotional_crisis", "immediate_safety", "contract_violation"}

assessEventPriority(event) ==
    CASE event.type \in CriticalTypes -> "critical"
      [] event.type \in {"progress_stall", "escalation_risk",
                         "authenticity_concern"} -> "high"
      [] event.type \in {"optimization_opportunity", "milestone_approaching",
                         "engagement_decline"} -> "medium"
      [] OTHER -> "low"

identifyInvolvedAgents(event) ==
    CASE event.category = "contract_analysis" -> <<"contractAnalyzer">>
      [] event.category = "emotional_event" -> <<"emotionalIntelligence">>
      [] event.category = "communication_event" ->
            <<"mediationEngine", "emotionalIntelligence">>
      [] event.category = "progress_event" -> <<"progressOptimizer">>
      [] event.category = "multi_party_event" ->
            <<"mediationEngine", "progressOptimizer">>
      [] OTHER -> <<"contractAnalyzer", "emotionalIntelligence",
                    "progressOptimizer">>

\* The switch of handleCriticalEvent
ImmediateActions(type) ==
    CASE type = "emotional_crisis" ->
            <<"activate_emotional_support", "notify_emergency_contacts">>
      [] type = "immediate_safety" ->
            <<"activate_safety_protocol", "contact_authorities">>
      [] type = "contract_violation" ->
            <<"document_violation", "notify_stakeholders">>
      [] OTHER -> <<>>

NewEventRecord(event) ==
    [event |-> event, priority |-> assessEventPriority(event),
     involvedAgents |-> identifyInvolvedAgents(event), responses |-> <<>>,
     coordinatedAction |-> "null", status |-> "processing", error |-> "none"]

\* The part of the state the event methods work on, as one record.
Machine ==
    [eventQueue |-> eventQueue, events |-> events,
     processingQueue |-> processingQueue, drains |-> drains,
     drainCount |-> drainCount, processTrace |-> processTrace]

SetMachine(m) ==
    /\ eventQueue' = m.eventQueue
    /\ events' = m.events
    /\ processingQueue' = m.processingQueue
    /\ drains' = m.drains
    /\ drainCount' = m.drainCount
    /\ processTrace' = m.processTrace

Traced(m, op, e, drainId) ==
    [m EXCEPT !.processTrace = Append(@, [op |-> op, event |-> e, drain |-> drainId])]

\* processEvent from the involved agent at position idx, up to its next
\* await.  An undefined routeEventToAgent throws inside the try block and the
\* catch block records the error; an undefined coordinateEventResponses
\* throws out of processEvent, whose promise rejects.
RECURSIVE processEvent(_, _, _)
processEvent(m, d, idx) ==
    LET e == m.drains[d].event
        involved == m.events[e].involvedAgents
    IN IF idx <= Len(involved)
       THEN IF "routeEventToAgent" \in helpers
            THEN [m EXCEPT !.drains[d].pc = "routing", !.drains[d].idx = idx]
            ELSE processEvent(
                    [m EXCEPT !.events[e].responses =
                        ObjectAssign(@, involved[idx], "error")], d, idx + 1)
       ELSE IF "coordinateEventResponses" \in helpers
            THEN [m EXCEPT !.drains[d].pc = "coordinating", !.drains[d].idx = idx]
            ELSE [m EXCEPT !.drains[d].pc = "rejected", !.drains[d].idx = idx]

RemoveAt(s, d) == SubSeq(s, 1, d - 1) \o SubSeq(s, d + 1, Len(s))

\* The event the loop of processEventQueue takes next: eventQueue.shift()
NextInQueue(queue) == 1

\* The loop reading this.eventQueue[0] where the code shifts it off
DrainLoopPeek(m, d) ==
    IF m.eventQueue = <<>>
    THEN [m EXCEPT !.processingQueue = FALSE, !.drains = RemoveAt(@, d)]
    ELSE LET e == m.eventQueue[NextInQueue(m.eventQueue)]
         IN processEvent(Traced([m EXCEPT !.drains[d].event = e],
                                "start", e, m.drains[d].id), d, 1)

\* The while loop of processEventQueue at its test, for activation d, up to
\* the await of processEvent or to the end of the loop.
DrainLoop(m, d) ==
    IF m.eventQueue = <<>>
    THEN [m EXCEPT !.processingQueue = FALSE, !.drains = RemoveAt(@, d)]
    ELSE LET at == NextInQueue(m.eventQueue)
             e == m.eventQueue[at]
         IN processEvent(
               Traced([m EXCEPT !.eventQueue = RemoveAt(@, at),
                                !.drains[d].event = e],
                      "start", e, m.drains[d].id),
               d, 1)

\* A call of processEventQueue, up to its first await
processEventQueue(m) ==
    LET id == m.drainCount + 1
        started == [m EXCEPT
            !.processingQueue = TRUE,
            !.drainCount = id,
            !.drains = Append(@, [id |-> id, pc |-> "loop", event |-> 0,
                                  idx |-> 0])]
    IN DrainLoop(started, Len(started.drains))

\* if (!this.processingQueue) this.processEventQueue()
StartsDrain(m) == ~m.processingQueue

\* handleEvent.  Nothing in it suspends before its state changes are done:
\* the record is pushed, a critical event is answered by handleCriticalEvent,
\* any other starts the drain if none is flagged and is answered "queued";
\* an undefined estimateProcessingTime throws into the catch block.
handleEvent(event) ==
    LET e == Len(events) + 1
        eventProcessing == NewEventRecord(event)
        pushed == [Machine EXCEPT !.eventQueue = Append(@, e),
                                  !.events = Append(@, eventProcessing)]
        draining == IF StartsDrain(pushed) THEN processEventQueue(pushed)
                    ELSE pushed
        answer(status, m) ==
            [eventId |-> e, status |-> status, priority |-> eventProcessing.priority,
             immediateActions |-> IF status = "handled"
                                  THEN ImmediateActions(event.type) ELSE <<>>,
             sizeBefore |-> Len(eventQueue), sizeAfter |-> Len(m.eventQueue),
             drainsBefore |-> [i \in 1..Len(drains) |-> drains[i].id],
             registered |-> agents]
    IN /\ IF eventProcessing.priority = "critical"
          THEN /\ SetMachine(pushed)
               /\ returns' = Append(returns, answer("handled", pushed))
          ELSE IF "estimateProcessingTime" \in helpers
          THEN /\ SetMachine(draining)
               /\ returns' = Append(returns, answer("queued", draining))
          ELSE /\ SetMachine([draining EXCEPT !.events[e].status = "failed",
                                              !.events[e].error = "TypeError"])
               /\ returns' = Append(returns, answer("threw", draining))
       /\ UNCHANGED <<gptVars, directVars, initVars, analysisVars, helpers>>

\* processEvent without the try block around routeEventToAgent: a rejection
\* leaves processEvent at once.
routeEventToAgentSettlesUncaught(d, outcome) ==
    LET e == drains[d].event
        agentName == events[e].involvedAgents[drains[d].idx]
    IN /\ drains[d].pc = "routing"
       /\ IF outcome = "error"
          THEN SetMachine([Machine EXCEPT !.drains[d].pc = "rejected"])
          ELSE SetMachine(processEvent(
                  [Machine EXCEPT !.events[e].responses =
                      ObjectAssign(@, agentName, outcome)], d, drains[d].idx + 1))
       /\ UNCHANGED <<gptVars, directVars, initVars, analysisVars, helpers, returns>>

\* processEvent after the await of routeEventToAgent for one involved agent
routeEventToAgentSettles(d, outcome) ==
    LET e == drains[d].event
        agentName == events[e].involvedAgents[drains[d].idx]
    IN /\ drains[d].pc = "routing"
       /\ SetMachine(processEvent(
             [Machine EXCEPT !.events[e].responses =
                 ObjectAssign(@, agentName, outcome)], d, drains[d].idx + 1))
       /\ UNCHANGED <<gptVars, directVars, initVars, analysisVars, helpers, returns>>

\* processEvent after the await of coordinateEventResponses: the event is
\* completed and processEvent returns, or its promise rejects.
coordinateEventResponsesSettles(d, outcome) ==
    LET e == drains[d].event
    IN /\ drains[d].pc = "coordinating"
       /\ IF outcome = "response"
          THEN SetMachine(Traced(
                  [Machine EXCEPT !.events[e].coordinatedAction = "action",
                                  !.events[e].status = "completed",
                                  !.drains[d].pc = "fulfilled"],
                  "end", e, drains[d].id))
          ELSE SetMachine([Machine EXCEPT !.drains[d].pc = "rejected"])
       /\ UNCHANGED <<gptVars, directVars, initVars, analysisVars, helpers, returns>>

\* processEventQueue after its await of processEvent: the catch block if the
\* promise rejected, then the loop again.
processEventQueueResume(d) ==
    LET e == drains[d].event
    IN /\ drains[d].pc \in {"fulfilled", "rejected"}
       /\ IF drains[d].pc = "rejected"
          THEN SetMachine(DrainLoop(
                  Traced([Machine EXCEPT !.events[e].status = "failed",
                                         !.events[e].error = "Error"],
                         "end", e, drains[d].id), d))
          ELSE SetMachine(DrainLoop(Machine, d))
       /\ UNCHANGED <<gptVars, directVars, initVars, analysisVars, helpers, returns>>

StartEventProcessing(m) ==
    IF ~m.processingQueue /\ Len(m.eventQueue) > 0 THEN processEventQueue(m)
    ELSE m

startEventProcessing ==
    /\ SetMachine(StartEventProcessing(Machine))
    /\ UNCHANGED <<gptVars, directVars, initVars, analysisVars, helpers, returns>>

stopEventProcessing ==
    /\ processingQueue' = FALSE
    /\ UNCHANGED <<gptVars, directVars, initVars, analysisVars, helpers, eventQueue, events, drains,
                   drainCount, processTrace, returns>>

\* initializeAgents after the await of performHealthCheck: the readiness flag
\* and startEventProcessing.
initializeAgentsResume(k) ==
    /\ initCalls[k].pc = "healthCheck"
    /\ initCalls' = [initCalls EXCEPT
            ![k].systemReadiness = (systemHealth.status = "operational"),
            ![k].healthAtReturn = systemHealth.overallStatus,
            ![k].pc = "returned"]
    /\ SetMachine(StartEventProcessing(Machine))
    /\ UNCHANGED <<gptVars, directVars, agents, systemHealth, analysisVars, helpers, returns>>

-----------------------------------------------------------------------------
(* resolveAgentConflicts *)

Severities == {"critical", "high", "medium", "low"}

Conflict(id, severity) == [id |-> id, severity |-> severity]

\* switch (conflict.severity): the entry of resolutionMethod.  The switch has
\* no default case.
ResolutionMethod(severity) ==
    CASE severity = "critical" -> "expert_override"
      [] severity = "high" -> "weighted_voting"
      [] severity = "medium" -> "consensus_building"
      [] severity = "low" -> "compromise"
      [] OTHER -> "none"

\* switch (conflict.severity): the method that is awaited for the decision
DecisionMethod(severity) ==
    CASE severity = "critical" -> "expertOverride"
      [] severity = "high" -> "weightedVoting"
      [] severity = "medium" -> "buildConsensus"
      [] severity = "low" -> "findCompromise"
      [] OTHER -> "none"

\* The for loop of resolveAgentConflicts from the conflict at position at, up
\* to the next await or to the throw of a call of an undefined method.
RECURSIVE ResolveLoop(_, _)
ResolveLoop(r, at) ==
    IF at > Len(r.conflicts)
    THEN IF "buildOverallConsensus" \in helpers
         THEN [r EXCEPT !.pc = "consensus", !.at = at]
         ELSE [r EXCEPT !.pc = "threw", !.at = at, !.error = "TypeError"]
    ELSE LET conflict == r.conflicts[at]
         IN IF conflict.severity \in Severities
            THEN LET chosen == [r EXCEPT !.at = at, !.resolutionMethod =
                        ObjectAssign(@, conflict.id,
                                     ResolutionMethod(conflict.severity))]
                 IN IF DecisionMethod(conflict.severity) \in helpers
                    THEN [chosen EXCEPT !.pc = "deciding"]
                    ELSE [chosen EXCEPT !.pc = "threw", !.error = "TypeError"]
            ELSE ResolveLoop(r, at + 1)

\* resolveAgentConflicts, up to its first await.  conflicts is what
\* identifyConflicts finds in agentRecommendations; an undefined
\* identifyConflicts throws before the resolution is built.
resolveAgentConflicts(conflicts) ==
    LET r == [conflicts |-> conflicts, pc |-> "identifying", at |-> 0,
              error |-> "none", resolutionMethod |-> <<>>,
              finalDecisions |-> <<>>, consensus |-> "none"]
    IN /\ resolutions' = Append(resolutions,
             IF "identifyConflicts" \in helpers
             THEN ResolveLoop(r, 1)
             ELSE [r EXCEPT !.pc = "threw", !.error = "TypeError"])
       /\ UNCHANGED <<gptVars, healthChecks, lookups, initVars, analysisVars, eventVars>>

\* resolveAgentConflicts after the await of the decision of one conflict
decisionSettles(k, outcome) ==
    LET r == resolutions[k]
        conflict == r.conflicts[r.at]
    IN /\ r.pc = "deciding"
       /\ resolutions' = [resolutions EXCEPT ![k] =
             IF outcome = "error"
             THEN [r EXCEPT !.pc = "threw", !.error = "Error"]
             ELSE ResolveLoop(
                     [r EXCEPT !.finalDecisions =
                         ObjectAssign(@, conflict.id,
                            [method |-> DecisionMethod(conflict.severity),
                             severity |-> conflict.severity])],
                     r.at + 1)]
       /\ UNCHANGED <<gptVars, healthChecks, lookups, initVars, analysisVars, eventVars>>

\* resolveAgentConflicts after the await of buildOverallConsensus
consensusSettles(k, outcome) ==
    LET r == resolutions[k]
    IN /\ r.pc = "consensus"
       /\ resolutions' = [resolutions EXCEPT ![k] =
             IF outcome = "error"
             THEN [r EXCEPT !.pc = "threw", !.error = "Error"]
             ELSE [r EXCEPT !.pc = "returned",
                            !.consensus = Keys(r.finalDecisions)]]
       /\ UNCHANGED <<gptVars, healthChecks, lookups, initVars, analysisVars, eventVars>>

-----------------------------------------------------------------------------
(* Spec: the coordinator under several analysis requests, which overlap at  *)
(* their awaits.                                                            *)

Context(contract, communications, apologyText, parties, processId) ==
    [isNull |-> FALSE, contract |-> contract, communications |-> communications,
     apologyText |-> apologyText, parties |-> parties, processId |-> processId,
     urgency |-> "none"]

SampleContexts ==
    {NullContext,
     Context(TRUE, FALSE, FALSE, 0, FALSE),
     Context(FALSE, TRUE, TRUE, 0, FALSE),
     Context(FALSE, FALSE, FALSE, MaxParties, TRUE)}

InitializeStep ==
    \/ \E available \in SUBSET Agents :
          initCalls = <<>> /\ initializeAgents(available)
    \/ \E k \in 1..Len(initCalls) : initializeAgentsResume(k)

AnalysisStep ==
    \/ \E c \in 1..Len(calls) : \E i \in 1..Len(calls[c].promises) :
          \E outcome \in Outcomes(calls[c].promises[i].agent,
                                  calls[c].promises[i].method) :
             executeAgentAnalysis(c, i, outcome)
    \/ \E c \in 1..Len(calls) : analyzeCollect(c)
    \/ \E c \in 1..Len(calls) : analyzeSynthesized(c)
    \/ \E c \in 1..Len(calls) : analyzeComplete(c)

Next ==
    \/ InitializeStep
    \/ \E ctx \in SampleContexts :
          /\ Len(calls) < MaxCalls
          /\ InvocationCount(calls) + Len(AgentPromises(agents, ctx))
                <= MaxInvocations
          /\ analyzeRepairProcess(ctx)
    \/ AnalysisStep

\* The class as it is in the repository.
InitRepository == Init /\ helpers = {}

Spec == InitRepository /\ [][Next]_vars

-----------------------------------------------------------------------------
(* SpecOneAnalysis: one analysis request, from every context and every      *)
(* set of registered agents.                                                *)

NextOneAnalysis ==
    \/ InitializeStep
    \/ \E ctx \in Contexts : calls = <<>> /\ analyzeRepairProcess(ctx)
    \/ AnalysisStep

SpecOneAnalysis == InitRepository /\ [][NextOneAnalysis]_vars

-----------------------------------------------------------------------------
(* SpecEvents: the coordinator under handleEvent and startEventProcessing   *)
(* calls, with the placeholder methods absent or supplied.                  *)

MaxEvents == 3          \* handleEvent calls in one behaviour

Event(type, category) == [type |-> type, category |-> category]

SampleEvents ==
    {Event("immediate_safety", "contract_analysis"),
     Event("progress_stall", "emotional_event"),
     Event("routine_analysis", "contract_analysis")}

\* The steps of the drains under way, and startEventProcessing
DrainStep ==
    \/ \E d \in 1..Len(drains) : \E outcome \in {"response", "error"} :
          routeEventToAgentSettles(d, outcome)
    \/ \E d \in 1..Len(drains) : \E outcome \in {"response", "error"} :
          coordinateEventResponsesSettles(d, outcome)
    \/ \E d \in 1..Len(drains) : processEventQueueResume(d)
    \/ startEventProcessing

EventStep ==
    \/ \E event \in SampleEvents : Len(events) < MaxEvents /\ handleEvent(event)
    \/ DrainStep

NextEvents == EventStep

SpecEvents == Init /\ [][NextEvents]_vars

-----------------------------------------------------------------------------
(* SpecEventsStop: SpecEvents with stopEventProcessing called as well, at   *)
(* any point between two steps.                                             *)

MaxStopEvents == 2      \* handleEvent calls in one behaviour with stops

NextEventsStop ==
    \/ \E event \in SampleEvents :
          Len(events) < MaxStopEvents /\ handleEvent(event)
    \/ DrainStep
    \/ stopEventProcessing

SpecEventsStop == Init /\ [][NextEventsStop]_vars

-----------------------------------------------------------------------------
(* SpecResolve: the coordinator under resolveAgentConflicts calls, with the *)
(* placeholder methods absent or supplied.                                  *)

MaxResolves == 2        \* resolveAgentConflicts calls in one behaviour
MaxConflicts == 2       \* most conflicts identified in one call

ConflictLists ==
    UNION {[1..n -> {Conflict(id, severity) :
                        id \in 1..MaxConflicts,
                        severity \in Severities \cup {"undefined"}}] :
             n \in 0..MaxConflicts}

NextResolve ==
    \/ \E conflicts \in ConflictLists :
          Len(resolutions) < MaxResolves /\ resolveAgentConflicts(conflicts)
    \/ \E k \in 1..Len(resolutions) : \E outcome \in {"decision", "error"} :
          decisionSettles(k, outcome)
    \/ \E k \in 1..Len(resolutions) : \E outcome \in {"consensus", "error"} :
          consensusSettles(k, outcome)

SpecResolve == Init /\ [][NextResolve]_vars

-----------------------------------------------------------------------------
(* SpecInitialize: the coordinator under initializeAgents calls, with any   *)
(* of the agent classes defined, and performHealthCheck calls.              *)

MaxInits == 2           \* initializeAgents calls in one behaviour
MaxHealthChecks == 3    \* performHealthCheck calls by a caller in one behaviour

NextInitialize ==
    \/ \E available \in SUBSET Agents :
          Len(initCalls) < MaxInits /\ initializeAgents(available)
    \/ \E k \in 1..Len(initCalls) : initializeAgentsResume(k)
    \/ Len(healthChecks) < MaxHealthChecks /\ performHealthCheck

SpecInitialize == InitRepository /\ [][NextInitialize]_vars

-----------------------------------------------------------------------------
(* SpecRouting: events of a category with and without an entry in the       *)
(* routing table, submitted before, while and after the agents are          *)
(* initialized.                                                             *)

RoutingEvents ==
    {Event("routine_analysis", "communication_event"),
     Event("routine_analysis", "unmapped_event")}

NextRouting ==
    \/ \E available \in SUBSET Agents :
          initCalls = <<>> /\ initializeAgents(available)
    \/ \E k \in 1..Len(initCalls) : initializeAgentsResume(k)
    \/ \E event \in RoutingEvents :
          Len(events) < MaxStopEvents /\ handleEvent(event)
    \/ DrainStep

SpecRouting == Init /\ [][NextRouting]_vars

-----------------------------------------------------------------------------
(* SpecProcess: events of two and of three involved agents, on a            *)
(* coordinator whose agents play no part.                                   *)

NextProcess ==
    \/ \E event \in RoutingEvents :
          Len(events) < MaxStopEvents /\ handleEvent(event)
    \/ DrainStep

SpecProcess == Init /\ [][NextProcess]_vars

-----------------------------------------------------------------------------
(* FairOneAnalysis: one analysis request, where every analyzer invocation   *)
(* settles and the event loop resumes the call after each of its awaits.    *)

NextSampleAnalysis ==
    \/ InitializeStep
    \/ \E ctx \in SampleContexts : calls = <<>> /\ analyzeRepairProcess(ctx)
    \/ AnalysisStep

FairOneAnalysis ==
    InitRepository /\ [][NextSampleAnalysis]_vars /\ WF_vars(AnalysisStep)

-----------------------------------------------------------------------------
(* GPTIntegration: makeRequest and its fallback.  An activation is at        *)
(* "primary" while its makeRequest waits for the call it sent, at "fallback" *)
(* while the makeRequest that makeRequestWithFallback called waits for its   *)
(* call, at "restoring" when that one has returned and                       *)
(* makeRequestWithFallback is to go on after its await, and at "returned".   *)
(* A throw of checkRateLimit or prepareRequest takes the path of a failed    *)
(* call without the wait, and the retries of executeWithRetry send the       *)
(* request prepared once: both are part of the settling.                     *)

\* APIConfig.updateConfig({fallback: {endpoint: endpoint}})
updateConfig(endpoint) ==
    /\ apiConfig' = [apiConfig EXCEPT !.fallback.endpoint = endpoint]
    /\ UNCHANGED <<requests, initVars, analysisVars, eventVars, directVars>>

\* makeRequest up to its await: prepareRequest reads config.primary.
makeRequest ==
    /\ requests' = Append(requests,
          [pc |-> "primary", usedFallback |-> FALSE,
           sentTo |-> <<apiConfig.primary.provider>>,
           originalConfig |-> "none", response |-> "none"])
    /\ UNCHANGED <<apiConfig, initVars, analysisVars, eventVars, directVars>>

\* makeRequestWithFallback up to its await: the copy of config.primary, the
\* switch to a copy of config.fallback, and the makeRequest it calls.
makeRequestWithFallback(config, request) ==
    [config |-> [config EXCEPT !.primary = config.fallback],
     request |-> [request EXCEPT
        !.pc = "fallback",
        !.usedFallback = TRUE,
        !.originalConfig = config.primary,
        !.sentTo = Append(@, config.fallback.provider)]]

\* handleRequestError: the fallback if it has an endpoint and the request
\* has not used it, the offline response otherwise.  A makeRequest called by
\* makeRequestWithFallback returns to it.
handleRequestError(config, request) ==
    IF config.fallback.endpoint # "null" /\ ~request.usedFallback
    THEN makeRequestWithFallback(config, request)
    ELSE [config |-> config,
          request |-> [request EXCEPT
             !.pc = IF request.pc = "fallback" THEN "restoring" ELSE "returned",
             !.response = "offline"]]

\* makeRequest after the await of executeWithRetry: the response is returned,
\* or the catch block calls handleRequestError.
executeAPICallSettles(r, outcome) ==
    LET request == requests[r]
        handled == handleRequestError(apiConfig, request)
    IN /\ request.pc \in {"primary", "fallback"}
       /\ IF outcome = "response"
          THEN /\ requests' = [requests EXCEPT
                     ![r].pc = IF request.pc = "fallback" THEN "restoring"
                               ELSE "returned",
                     ![r].response = "response"]
               /\ UNCHANGED apiConfig
          ELSE /\ requests' = [requests EXCEPT ![r] = handled.request]
               /\ apiConfig' = handled.config
       /\ UNCHANGED <<initVars, analysisVars, eventVars, directVars>>

\* makeRequestWithFallback after its await: config.primary is set to the
\* copy taken before, and the response returned.
makeRequestWithFallbackResume(r) ==
    /\ requests[r].pc = "restoring"
    /\ apiConfig' = [apiConfig EXCEPT !.primary = requests[r].originalConfig]
    /\ requests' = [requests EXCEPT ![r].pc = "returned"]
    /\ UNCHANGED <<initVars, analysisVars, eventVars, directVars>>

-----------------------------------------------------------------------------
(* SpecFallback: requests that overlap, with and without an endpoint of the *)
(* fallback.                                                                *)

MaxRequests == 3        \* makeRequest calls in one behaviour

NextFallback ==
    \/ \E endpoint \in {"null", "https://fallback"} :
          /\ apiConfig.fallback.endpoint # endpoint
          /\ updateConfig(endpoint)
    \/ Len(requests) < MaxRequests /\ makeRequest
    \/ \E r \in 1..Len(requests) : \E outcome \in {"response", "error"} :
          executeAPICallSettles(r, outcome)
    \/ \E r \in 1..Len(requests) : makeRequestWithFallbackResume(r)

SpecFallback == InitRepository /\ [][NextFallback]_vars

-----------------------------------------------------------------------------
(* SpecLookup: one analysis request, and getCoordination calls with its id  *)
(* and with another at any point.                                           *)

MaxLookups == 2         \* getCoordination calls in one behaviour

NextLookup ==
    \/ InitializeStep
    \/ \E ctx \in SampleContexts : calls = <<>> /\ analyzeRepairProcess(ctx)
    \/ AnalysisStep
    \/ \E id \in 1..2 : Len(lookups) < MaxLookups /\ getCoordination(id)

SpecLookup == InitRepository /\ [][NextLookup]_vars

-----------------------------------------------------------------------------
(* SpecLog: logAgentCommunication calls, to beyond the cap of the log.      *)

MaxAppends == 1002      \* logAgentCommunication calls in one behaviour

NextLog ==
    appends < MaxAppends /\ logAgentCommunicationCall("contractAnalyzer", TRUE)

SpecLog == InitRepository /\ [][NextLog]_vars

-----------------------------------------------------------------------------
(* SpecRecommend: one analysis of an apology and a tracked process, whose   *)
(* two analyzers answer with every short list of recommendations.           *)

MaxRecs == 2            \* longest recommendation list of one analyzer

RecUniverse ==
    {Rec(a, c, p) : a \in {<<"a">>, <<"a", "b">>},
                    c \in {<<"c">>, <<"b", "c">>}, p \in {"high", "low"}}
    \cup {Rec(CoordinationAction, CoordinationCategory, "low")}

\* The lists of at most n recommendations
RecLists(n) == UNION {[1..k -> RecUniverse] : k \in 0..n}

RecommendOutcomes(agentName, method) ==
    IF method = "analyzeProgress"
    THEN {[kind |-> "fulfilled", thrown |-> "none",
           value |-> Result(method, 0, FALSE, "list", TRUE, recs)] :
             recs \in RecLists(MaxRecs)}
    ELSE {[kind |-> "fulfilled", thrown |-> "none",
           value |-> Result(method, 75, TRUE, "list", FALSE, recs)] :
             recs \in {<<>>, <<Rec(<<"a">>, <<"c">>, "low")>>}}

NextRecommend ==
    \/ initCalls = <<>> /\ initializeAgents(Agents)
    \/ \E k \in 1..Len(initCalls) : initializeAgentsResume(k)
    \/ calls = <<>> /\ analyzeRepairProcess(Context(FALSE, FALSE, TRUE, 0, TRUE))
    \/ \E c \in 1..Len(calls) : \E i \in 1..Len(calls[c].promises) :
          \E outcome \in RecommendOutcomes(calls[c].promises[i].agent,
                                           calls[c].promises[i].method) :
             executeAgentAnalysis(c, i, outcome)
    \/ \E c \in 1..Len(calls) : analyzeCollect(c)
    \/ \E c \in 1..Len(calls) : analyzeSynthesized(c)
    \/ \E c \in 1..Len(calls) : analyzeComplete(c)

SpecRecommend == InitRepository /\ [][NextRecommend]_vars

-----------------------------------------------------------------------------
(* Properties of analyzeRepairProcess *)

Coordination(c) == activeCoordinations[calls[c].id]

Stored(c) == calls[c].id \in DOMAIN activeCoordinations

Rejected(c) == {i \in 1..Len(calls[c].promises) :
                   calls[c].promises[i].state = "rejected"}

Fulfilled(c) == {i \in 1..Len(calls[c].promises) :
                    calls[c].promises[i].state = "fulfilled"}

\* No fulfilled invocation answered with a result synthesizeResults cannot read.
ReadableResults(c) ==
    \A i \in Fulfilled(c) :
        ~SynthesisThrows(calls[c].promises[i].agent, calls[c].promises[i].value)

\* C1: an analysis of a context object in which nothing went wrong but
\* rejections of analyzer invocations, whichever and however many, is never
\* failed: its call does not throw, its record is in_progress until the call
\* returns and completed from then on.
C1_RejectionsAreNotFatal ==
    \A c \in 1..Len(calls) :
        (~calls[c].ctx.isNull /\ ReadableResults(c)) =>
            /\ calls[c].pc \in {"awaiting", "synthesizing", "recommending",
                                "completed"}
            /\ Coordination(c).status =
                  IF calls[c].pc = "completed" THEN "completed" ELSE "in_progress"

\* An analysis completed although each of its three or more invocations
\* rejected, one of them by throwing a value without properties.
C1_Witness ==
    \E c \in 1..Len(calls) :
        /\ calls[c].pc = "completed"
        /\ Len(calls[c].promises) >= 3
        /\ Rejected(c) = 1..Len(calls[c].promises)
        /\ \E i \in Rejected(c) : calls[c].promises[i].reason = "TypeError"
        /\ Coordination(c).status = "completed"

\* The agents the claim calls applicable: registered, and the context has
\* the field the agent needs.
Applicable(registered, ctx) ==
    {a \in Agents :
        /\ registered[a]
        /\ CASE a = "contractAnalyzer" -> ctx.contract
             [] a = "emotionalIntelligence" -> ctx.communications \/ ctx.apologyText
             [] a = "mediationEngine" -> ctx.parties > 1
             [] a = "progressOptimizer" -> ctx.processId}

FailedAgents(c) == {calls[c].promises[i].agent : i \in Rejected(c)}

\* C2: when an analysis completes, the keys of agentResults are the
\* applicable agents without a failed invocation, one entry each.
C2_KeysAreUnfailedApplicable ==
    \A c \in 1..Len(calls) :
        calls[c].pc = "completed" =>
            LET keys == Keys(Coordination(c).agentResults)
            IN /\ Range(keys) =
                    Applicable(calls[c].registered, calls[c].ctx) \ FailedAgents(c)
               /\ Cardinality(Range(keys)) = Len(keys)

AgentFailures(c) ==
    {k \in 1..Len(Coordination(c).conflicts) :
        Coordination(c).conflicts[k].type = "agent_failure"}

\* C3: in a completed analysis there is one agent_failure conflict for each
\* rejected invocation, and the result of each fulfilled invocation is in
\* agentResults under its agent's name, unchanged.
C3_FailuresRecordedResultsKept ==
    \A c \in 1..Len(calls) :
        calls[c].pc = "completed" =>
            /\ Cardinality(AgentFailures(c)) = Cardinality(Rejected(c))
            /\ \A i \in Fulfilled(c) :
                  \E k \in 1..Len(Coordination(c).agentResults) :
                      Coordination(c).agentResults[k] =
                          [key |-> calls[c].promises[i].agent,
                           value |-> calls[c].promises[i].value]

\* C7: a coordination record is stored in_progress, is never removed, and
\* its status changes only from in_progress, to completed or to failed.
C7_StatusOnlyForward ==
    [][\A id \in DOMAIN activeCoordinations' :
          IF id \in DOMAIN activeCoordinations
          THEN \/ activeCoordinations'[id].status = activeCoordinations[id].status
               \/ /\ activeCoordinations[id].status = "in_progress"
                  /\ activeCoordinations'[id].status \in {"completed", "failed"}
          ELSE activeCoordinations'[id].status = "in_progress"]_vars

\* One analysis has completed and another has failed: after the first of the
\* two reached its final status the other call went on.
C7_Witness ==
    \E c1, c2 \in 1..Len(calls) :
        /\ Stored(c1) /\ Stored(c2)
        /\ Coordination(c1).status = "completed"
        /\ Coordination(c2).status = "failed"

\* C8: a call of analyzeRepairProcess that throws leaves a record of that
\* call, with status failed.
C8_ThrowLeavesFailedRecord ==
    \A c \in 1..Len(calls) :
        calls[c].pc \in {"threw", "failed"} =>
            Stored(c) /\ Coordination(c).status = "failed"

-----------------------------------------------------------------------------
(* Properties of the event queue *)

NonCritical(e) == events[e].priority # "critical"

\* C4: handleEvent answers a critical event with status handled and leaves
\* the length of the event queue as it found it.
C4_CriticalNotQueued ==
    \A r \in 1..Len(returns) :
        returns[r].priority = "critical" =>
            /\ returns[r].status = "handled"
            /\ returns[r].sizeAfter = returns[r].sizeBefore

\* C5: when processEvent starts on a non-critical event, processEvent has
\* started and ended on every non-critical event submitted before it.
C5_FifoProcessing ==
    \A k \in 1..Len(processTrace) :
        (processTrace[k].op = "start" /\ NonCritical(processTrace[k].event)) =>
            \A e1 \in 1..(processTrace[k].event - 1) :
                NonCritical(e1) =>
                    \E j \in 1..(k - 1) :
                        processTrace[j].op = "end" /\ processTrace[j].event = e1

\* C6: never two activations of processEventQueue at once; an event
\* submitted while one is suspended is started by that one and by no other.
C6_SingleDrain ==
    /\ Len(drains) <= 1
    /\ \A r \in 1..Len(returns) :
          returns[r].drainsBefore # <<>> =>
              \A k \in 1..Len(processTrace) :
                  (processTrace[k].op = "start"
                   /\ processTrace[k].event = returns[r].eventId) =>
                      processTrace[k].drain \in Range(returns[r].drainsBefore)

-----------------------------------------------------------------------------
(* Properties of the recommendation list *)

Pair(rec) == <<rec.action, rec.category>>

\* The recommendations generateUnifiedRecommendations collected for a call,
\* in arrival order.
Arrived(c) ==
    CollectRecommendations(Coordination(c).agentResults, calls[c].id)

\* C9: the recommendations of a completed coordination hold no two entries
\* of one (action, category) pair, and an entry of every pair that arrived.
C9_DeduplicatedByPair ==
    \A c \in 1..Len(calls) :
        calls[c].pc = "completed" =>
            LET recs == Coordination(c).recommendations
            IN /\ \A i, j \in 1..Len(recs) :
                     Pair(recs[i]) = Pair(recs[j]) => i = j
               /\ \A k \in 1..Len(Arrived(c)) :
                     \E i \in 1..Len(recs) : Pair(recs[i]) = Pair(Arrived(c)[k])

FirstIndex(s, x) == CHOOSE i \in 1..Len(s) : s[i] = x /\ \A j \in 1..(i - 1) : s[j] # x

\* s is in descending rank order, entries of one rank in their order in arrived.
SortedStable(s, arrived) ==
    \A i, j \in 1..Len(s) :
        i < j =>
            /\ PriorityRank(s[i].priority) >= PriorityRank(s[j].priority)
            /\ (PriorityRank(s[i].priority) = PriorityRank(s[j].priority)
                /\ s[i] # s[j]) =>
                  FirstIndex(arrived, s[i]) < FirstIndex(arrived, s[j])

\* C10 as claimed: the whole list of a completed coordination is in
\* descending rank order, entries of one rank in arrival order (the
\* coordinator's own entry arriving last).
C10_WholeListSorted ==
    \A c \in 1..Len(calls) :
        calls[c].pc = "completed" =>
            SortedStable(Coordination(c).recommendations,
                         Arrived(c) \o generateCoordinationRecommendations)

\* C10 as amended: the list of a completed coordination ends with the
\* coordinator's own entry, and the entries before it, those of the agents,
\* are in descending rank order, entries of one rank in arrival order.
C10_AgentPartSorted ==
    \A c \in 1..Len(calls) :
        calls[c].pc = "completed" =>
            LET recs == Coordination(c).recommendations
            IN /\ Len(recs) >= 1
               /\ recs[Len(recs)].source = "coordinator"
               /\ \A i \in 1..(Len(recs) - 1) : recs[i].source # "coordinator"
               /\ SortedStable(SubSeq(recs, 1, Len(recs) - 1), Arrived(c))

\* A completed list with two different agent entries of one rank, in their
\* arrival order, behind an entry of higher rank that arrived after them,
\* and a low entry right before the coordinator's medium one.
C10_Witness ==
    \E c \in 1..Len(calls) :
        /\ calls[c].pc = "completed"
        /\ LET recs == Coordination(c).recommendations
           IN /\ Len(recs) = 4
              /\ recs[1].priority = "high"
              /\ recs[2].priority = "low" /\ recs[3].priority = "low"
              /\ recs[2] # recs[3]
              /\ FirstIndex(Arrived(c), recs[3]) < FirstIndex(Arrived(c), recs[1])
              /\ recs[4].priority = "medium"

-----------------------------------------------------------------------------
(* Properties of resolveAgentConflicts *)

ConflictIdsOf(r) == {r.conflicts[i].id : i \in 1..Len(r.conflicts)}

\* The severity the loop sees last for the conflict id
LastSeverity(r, id) ==
    r.conflicts[CHOOSE i \in 1..Len(r.conflicts) :
                   /\ r.conflicts[i].id = id
                   /\ \A j \in (i + 1)..Len(r.conflicts) :
                         r.conflicts[j].id # id].severity

Ended(r) == r.pc \in {"returned", "threw"}

\* C11: a resolveAgentConflicts call on conflicts of the four severities, in
\* which no awaited method rejected, returns a resolution whose
\* resolutionMethod and finalDecisions hold one entry for each conflict id,
\* the method being the one the severity maps to; and two such calls on the
\* same conflicts return the same finalDecisions.
C11_ResolutionTotal ==
    /\ \A k \in 1..Len(resolutions) :
          LET r == resolutions[k]
          IN (/\ Ended(r)
              /\ r.error # "Error"
              /\ \A i \in 1..Len(r.conflicts) :
                    r.conflicts[i].severity \in Severities) =>
                 /\ r.pc = "returned"
                 /\ Range(Keys(r.resolutionMethod)) = ConflictIdsOf(r)
                 /\ Range(Keys(r.finalDecisions)) = ConflictIdsOf(r)
                 /\ Len(r.resolutionMethod) = Cardinality(ConflictIdsOf(r))
                 /\ Len(r.finalDecisions) = Cardinality(ConflictIdsOf(r))
                 /\ \A e \in 1..Len(r.resolutionMethod) :
                       r.resolutionMethod[e].value =
                          ResolutionMethod(LastSeverity(r, r.resolutionMethod[e].key))
    /\ \A k1, k2 \in 1..Len(resolutions) :
          (/\ resolutions[k1].pc = "returned"
           /\ resolutions[k2].pc = "returned"
           /\ resolutions[k1].conflicts = resolutions[k2].conflicts) =>
              resolutions[k1].finalDecisions = resolutions[k2].finalDecisions

-----------------------------------------------------------------------------
(* Settle order *)

FulfilledOf(c, agentName) ==
    {i \in Fulfilled(c) : calls[c].promises[i].agent = agentName}

\* C12: the agentResults of a completed analysis are fixed by the outcomes
\* of its invocations alone, whatever the order of settling: the key of each
\* agent with a fulfilled invocation, in the order of the fan-out, with the
\* result of the agent's last fulfilled invocation in that order; and the
\* consensus is the synthesis of these.
C12_SettleOrderIrrelevant ==
    \A c \in 1..Len(calls) :
        calls[c].pc = "completed" =>
            LET results == Coordination(c).agentResults
                keys == Keys(results)
                first(a) == CHOOSE i \in FulfilledOf(c, a) :
                               \A j \in FulfilledOf(c, a) : i <= j
                last(a) == CHOOSE i \in FulfilledOf(c, a) :
                              \A j \in FulfilledOf(c, a) : j <= i
            IN /\ Range(keys) = {a \in Agents : FulfilledOf(c, a) # {}}
               /\ Cardinality(Range(keys)) = Len(keys)
               /\ \A k1, k2 \in 1..Len(keys) :
                     k1 < k2 => first(keys[k1]) < first(keys[k2])
               /\ \A k \in 1..Len(keys) :
                     results[k].value = calls[c].promises[last(keys[k])].value
               /\ LET consensus == Coordination(c).consensus
                      synthesis == synthesizeResults(results)
                  IN /\ consensus.keyInsights = synthesis.keyInsights
                     /\ consensus.riskFactors = synthesis.riskFactors
                     /\ consensus.confidence = synthesis.confidence

\* A completed analysis in which emotionalIntelligence was invoked twice and
\* analyzeAuthenticity settled before recognizeEmotionalPatterns, both
\* fulfilled, and a third invocation settled before both.
C12_Witness ==
    \E c \in 1..Len(calls) :
        /\ calls[c].pc = "completed"
        /\ \E i, j, k \in Fulfilled(c) :
              /\ calls[c].promises[i].method = "recognizeEmotionalPatterns"
              /\ calls[c].promises[j].method = "analyzeAuthenticity"
              /\ SettleRank(calls[c].promises[j]) < SettleRank(calls[c].promises[i])
              /\ k > j
              /\ SettleRank(calls[c].promises[k]) < SettleRank(calls[c].promises[j])

-----------------------------------------------------------------------------
(* Properties of initializeAgents and performHealthCheck *)

Returned(k) == initCalls[k].pc = "returned"

Missing(k) == Agents \ initCalls[k].available

\* C13: an initializeAgents call that has returned reports one error for each
\* expected agent that is unavailable, and has initialized and registered
\* each one that is available.
C13_InitializesAllAvailable ==
    \A k \in 1..Len(initCalls) :
        Returned(k) =>
            /\ Range(initCalls[k].errors) = Missing(k)
            /\ Len(initCalls[k].errors) = Cardinality(Missing(k))
            /\ initCalls[k].agents = initCalls[k].available
            /\ \A a \in initCalls[k].available : agents[a]

\* C14: the readiness flag an initializeAgents call returns is true exactly
\* if the health check run during that call reported operational.
C14_ReadyIffOperational ==
    \A k \in 1..Len(initCalls) :
        Returned(k) =>
            (initCalls[k].systemReadiness
                <=> initCalls[k].healthCheck = "operational")

\* C15: when an initializeAgents call with exactly one expected agent
\* unavailable returns, the stored health has overallStatus degraded and the
\* report has exactly one error, naming that agent.
C15_OneMissingIsDegraded ==
    \A k \in 1..Len(initCalls) :
        (Returned(k) /\ Cardinality(Missing(k)) = 1) =>
            /\ initCalls[k].healthAtReturn = "degraded"
            /\ Len(initCalls[k].errors) = 1
            /\ initCalls[k].errors[1] \in Missing(k)

Unregistered(registered) == {a \in Agents : ~registered[a]}

\* C16: what performHealthCheck returns has an overallStatus fixed by the
\* number u of unregistered agents, operational for 0, degraded for 1 or 2,
\* critical above; it reports each agent operational if registered and
\* unavailable if not; and it is what the call stored as the system health.
C16_HealthByUnregistered ==
    \A h \in 1..Len(healthChecks) :
        LET u == Cardinality(Unregistered(healthChecks[h].registered))
            returned == healthChecks[h].returned
        IN /\ u = 0 => returned.overallStatus = "operational"
           /\ u \in {1, 2} => returned.overallStatus = "degraded"
           /\ u > 2 => returned.overallStatus = "critical"
           /\ \A a \in Agents :
                 returned.agentStatus[a] =
                    IF healthChecks[h].registered[a] THEN "operational"
                    ELSE "unavailable"
           /\ healthChecks[h].stored = returned

\* Health checks were run with no, with two and with four agents unregistered.
C16_Witness ==
    \E h0, h2, h4 \in 1..Len(healthChecks) :
        /\ Cardinality(Unregistered(healthChecks[h0].registered)) = 0
        /\ Cardinality(Unregistered(healthChecks[h2].registered)) = 2
        /\ Cardinality(Unregistered(healthChecks[h4].registered)) = 4
        /\ healthChecks[h0].returned.overallStatus = "operational"
        /\ healthChecks[h2].returned.overallStatus = "degraded"
        /\ healthChecks[h4].returned.overallStatus = "critical"

-----------------------------------------------------------------------------
(* Routing *)

RoutingTable == {"contract_analysis", "emotional_event", "communication_event",
                 "progress_event", "multi_party_event"}

\* C17: the involvedAgents of an event whose category has no entry in the
\* routing table are the agents registered when handleEvent took the event.
C17_UnmappedToAllRegistered ==
    \A r \in 1..Len(returns) :
        LET record == events[returns[r].eventId]
        IN record.event.category \notin RoutingTable =>
              /\ Range(record.involvedAgents) =
                    {a \in Agents : returns[r].registered[a]}
              /\ Len(record.involvedAgents) =
                    Cardinality(Range(record.involvedAgents))

-----------------------------------------------------------------------------
(* Lookup *)

\* C18: getCoordination returns the record of every id an analyzeRepairProcess
\* call has created, whatever became of the analysis, and raises an error
\* for an id that was never created.
C18_LookupFindsOrThrows ==
    \A l \in 1..Len(lookups) :
        IF lookups[l].created
        THEN ~lookups[l].threw /\ lookups[l].found
        ELSE lookups[l].threw

-----------------------------------------------------------------------------
(* The communication log *)

Min(a, b) == IF a < b THEN a ELSE b

\* C19: after n logAgentCommunication calls the log holds the entries of the
\* last min(n, 1000) calls, in the order of the calls, and so never more
\* than 1000.
C19_LogKeepsNewest ==
    /\ Len(agentCommunicationLog) = Min(appends, LogCap)
    /\ Len(agentCommunicationLog) <= LogCap
    /\ \A i \in 1..Len(agentCommunicationLog) :
          agentCommunicationLog[i].timestamp =
             appends - Len(agentCommunicationLog) + i

\* The log is full and the entries of the first two calls are gone.
C19_Witness ==
    /\ appends = LogCap + 2
    /\ Len(agentCommunicationLog) = LogCap
    /\ agentCommunicationLog[1].timestamp = 3
    /\ agentCommunicationLog[LogCap].timestamp = LogCap + 2

-----------------------------------------------------------------------------
(* Confidence of the consensus *)

\* The non-zero confidence values of the insights, in order
NonZeroConfidences(keyInsights) ==
    SelectSeq([i \in 1..Len(keyInsights) |-> keyInsights[i].confidence],
              LAMBDA c : c # 0)

\* C20: the confidence of the consensus of a completed analysis is 0 if no
\* insight of the consensus has a non-zero confidence, and else the mean of
\* the non-zero confidences of the insights, rounded to the nearest integer
\* (a half upwards).
C20_ConfidenceIsRoundedMean ==
    \A c \in 1..Len(calls) :
        calls[c].pc = "completed" =>
            LET consensus == Coordination(c).consensus
                values == NonZeroConfidences(consensus.keyInsights)
                n == Len(values)
                sum == SumConfidence(values)
            IN IF n = 0 THEN consensus.confidence = 0
               ELSE /\ 2 * n * consensus.confidence - n <= 2 * sum
                    /\ 2 * sum < 2 * n * consensus.confidence + n

\* A completed analysis with a rejected invocation and three insights, whose
\* confidences 70, 75 and 85 have the mean 76.67, and the confidence 77.
C20_Witness ==
    \E c \in 1..Len(calls) :
        /\ calls[c].pc = "completed"
        /\ Rejected(c) # {}
        /\ NonZeroConfidences(Coordination(c).consensus.keyInsights)
              = <<70, 75, 85>>
        /\ Coordination(c).consensus.confidence = 77

-----------------------------------------------------------------------------
(* The order of deduplication and sorting *)

\* The entries of arrived that no earlier entry shares its (action,
\* category) pair with.
FirstOfPair(arrived) ==
    {arrived[i] : i \in {k \in 1..Len(arrived) :
                           \A j \in 1..(k - 1) : Pair(arrived[j]) # Pair(arrived[k])}}

\* C21: the agent-sourced part of the list of a completed coordination is
\* the arrived recommendations deduplicated by (action, category) in
\* arrival order, the first arrived of a pair kept, and then sorted stably
\* by descending rank.
C21_DedupThenStableSort ==
    \A c \in 1..Len(calls) :
        calls[c].pc = "completed" =>
            LET recs == Coordination(c).recommendations
                part == SubSeq(recs, 1, Len(recs) - 1)
            IN /\ Range(part) = FirstOfPair(Arrived(c))
               /\ Len(part) = Cardinality(FirstOfPair(Arrived(c)))
               /\ SortedStable(part, Arrived(c))

-----------------------------------------------------------------------------
(* The status of an event record *)

\* C22: a record enters events as 'processing', or as 'failed' where the
\* handleEvent that pushed it ran into its catch block in the same step;
\* afterwards its status changes only from 'processing', and only to
\* 'completed' or 'failed'.
C22_EventStatusMovesOnce ==
    [][/\ Len(events') >= Len(events)
       /\ \A e \in 1..Len(events') :
             IF e > Len(events)
             THEN \/ events'[e].status = "processing"
                  \/ /\ events'[e].status = "failed"
                     /\ returns'[Len(returns')].eventId = e
                     /\ returns'[Len(returns')].status = "threw"
             ELSE \/ events'[e].status = events[e].status
                  \/ /\ events[e].status = "processing"
                     /\ events'[e].status \in {"completed", "failed"}]_vars

\* An event that the catch block of handleEvent marked failed and whose
\* processing the drain loop has ended afterwards, next to a record that
\* went from 'processing' to its end in the drain loop alone.
C22_Witness ==
    /\ \E e \in 1..Len(events) :
          /\ events[e].status = "failed"
          /\ \E r \in 1..Len(returns) :
                returns[r].eventId = e /\ returns[r].status = "threw"
          /\ \E k \in 1..Len(processTrace) :
                processTrace[k].op = "end" /\ processTrace[k].event = e
    /\ \E e \in 1..Len(events) :
          /\ events[e].status = "failed"
          /\ \E r \in 1..Len(returns) :
                returns[r].eventId = e /\ returns[r].status = "handled"

-----------------------------------------------------------------------------
(* The routing of one event *)

\* The processing of event e has ended
EventEnded(e) ==
    \E k \in 1..Len(processTrace) :
        processTrace[k].op = "end" /\ processTrace[k].event = e

InvocationsStarted(d) ==
    SubSeq(events[drains[d].event].involvedAgents, 1, drains[d].idx)

\* C24: when processEvent waits for an agent's answer, the invocation of
\* every involved agent of the event has been started.
C24_AllStartedBeforeAwait ==
    \A d \in 1..Len(drains) :
        drains[d].pc = "routing" =>
            InvocationsStarted(d) = events[drains[d].event].involvedAgents

-----------------------------------------------------------------------------
(* Settle-all semantics of analyzeRepairProcess *)

Pending(c) == (1..Len(calls[c].promises)) \ (Rejected(c) \cup Fulfilled(c))

Terminated(c) == Len(calls) >= c /\ calls[c].pc \in {"completed", "failed"}

\* C25: the call goes on to synthesis, and the status of its record leaves
\* in_progress, only when every invocation has settled; every call that
\* waits for its invocations comes to an end when they all settle; and it
\* ends completed when the results were of the shapes synthesizeResults
\* reads.
C25_SettleAllThenCompleted ==
    /\ [](\A c \in 1..Len(calls) :
            /\ calls[c].pc \in {"synthesizing", "recommending", "completed",
                                "failed"} => Pending(c) = {}
            /\ (Stored(c) /\ Coordination(c).status # "in_progress") =>
                  Pending(c) = {}
            /\ (Terminated(c) /\ ReadableResults(c)) =>
                  /\ calls[c].pc = "completed"
                  /\ Coordination(c).status = "completed")
    /\ \A c \in 1..MaxCalls :
          (Len(calls) >= c /\ calls[c].pc = "awaiting") ~> Terminated(c)

\* A completed call of which an invocation rejected before another, one
\* that fulfilled, had settled.
C25_Witness ==
    \E c \in 1..Len(calls) :
        /\ calls[c].pc = "completed"
        /\ Coordination(c).status = "completed"
        /\ \E i \in Rejected(c) : \E j \in Fulfilled(c) :
              SettleRank(calls[c].promises[i]) < SettleRank(calls[c].promises[j])

-----------------------------------------------------------------------------
(* Critical events and the drain loop *)

\* handleEvent has answered event e with status handled
Handled(e) ==
    \E r \in 1..Len(returns) :
        returns[r].eventId = e /\ returns[r].status = "handled"

\* C26: the drain loop never takes an event that handleEvent has answered
\* with status handled: processEvent starts on no such event.
C26_HandledNeverDrained ==
    \A k \in 1..Len(processTrace) :
        processTrace[k].op = "start" => ~Handled(processTrace[k].event)

\* C27: no record is left behind.  With no activation of processEventQueue
\* under way nothing is scheduled that would take a record from the queue,
\* so a record that is to be removed and finished without a further call
\* must be so by then: the queue is empty and every record is completed or
\* failed.
C27_NothingLeftBehind ==
    drains = <<>> =>
        /\ eventQueue = <<>>
        /\ \A e \in 1..Len(events) :
              events[e].status \in {"completed", "failed"}

-----------------------------------------------------------------------------
(* The processingQueue flag *)

\* C28: processingQueue is true exactly while an activation of
\* processEventQueue is under way, and there is never more than one.
C28_FlagTracksDrain ==
    /\ processingQueue <=> drains # <<>>
    /\ Len(drains) <= 1

-----------------------------------------------------------------------------
(* The agent of an agent_failure conflict *)

\* C29: the agent_failure conflicts of a coordination name, in their order,
\* the agents of the rejected invocations of its call.
C29_FailureNamesAgent ==
    \A c \in 1..Len(calls) :
        calls[c].pc \in {"synthesizing", "recommending", "completed"} =>
            LET failures == SelectSeq(Coordination(c).conflicts,
                                      LAMBDA k : k.type = "agent_failure")
                rejected == SelectSeq(calls[c].promises,
                                      LAMBDA p : p.state = "rejected")
            IN /\ Len(failures) = Len(rejected)
               /\ \A k \in 1..Len(failures) :
                     failures[k].agent = rejected[k].agent

-----------------------------------------------------------------------------
(* The fallback of GPTIntegration *)

InFallback(r) == requests[r].pc \in {"fallback", "restoring"}

\* C30: whenever no request is in makeRequestWithFallback, config.primary is
\* what it was before the requests; and no request is sent to the fallback
\* more than once.
C30_FallbackRestoresPrimary ==
    /\ (\A r \in 1..Len(requests) : ~InFallback(r)) =>
          apiConfig.primary = PrimaryConfig
    /\ \A r \in 1..Len(requests) : Len(requests[r].sentTo) <= 2

====
